---- MODULE Spec2Model ----
(***************************************************************************)
(* Frame-by-frame model of flapp (src/main.rs): the Bird, the recycled     *)
(* field of Obstacle pairs, the Score, the paused flag of Time<Virtual>    *)
(* and the Update systems show_pause_screen, update_bird, update_obstacles *)
(* with their deferred Commands.                                           *)
(*                                                                         *)
(* Numbers.  The program computes in f32.  The model keeps every length in *)
(* quarter pixels and every frame delta in sixteenths of a second, and the *)
(* inputs are drawn so that every value the program computes is a small    *)
(* dyadic rational: on those inputs the f32 arithmetic is exact and the    *)
(* integer arithmetic below is the same arithmetic.                        *)
(*   length in the model   = 4 * length in the program                     *)
(*   delta in the model    = 16 * time.delta_secs()                        *)
(*   velocity in the model = velocity in the program (units per second)    *)
(***************************************************************************)
EXTENDS Integers, Sequences, FiniteSets, TLC

\* ---------------------------------------------------------------- constants
WIN_X == 1280
WIN_Y == 720
\* 4.5 in the program; world units per sprite pixel, here in quarter units
PIXEL_RATIO == 18
FLAP_FORCE == 400
GRAVITY == 1600
MERCY_ZONE == 5
OBSTACLE_AMOUNT == 8
OBSTACLE_WIDTH == 32
OBSTACLE_HEIGHT == 144
OBSTACLE_VERTICAL_OFFSET == 30
OBSTACLE_GAP == 16
OBSTACLE_SPACING == 64
OBSTACLE_SCROLL_SPEED == 120

\* a length of the program given in world units, in the model's quarter units
Q(units) == 4 * units

\* ------------------------------------------------------------------- bounds
\* frames are explored while the field has scrolled less than MaxScroll world
\* units since it was spawned
MaxScroll == 700
\* the same for the runs at a steady frame rate, which go on to the recycling
MaxSteadyScroll == 1400
\* frames are explored while at most MaxPauseTexts PauseText entities exist
MaxPauseTexts == 6
\* frames are explored while the bird is at most MaxBirdY world units high
MaxBirdY == 0
\* only the first VariedPairs pairs of a spawn draw their offset freely
VariedPairs == 1

\* frame deltas of an unpaused frame, in sixteenths of a second (Time<Virtual>
\* clamps a delta to 0.25 s)
DeltaTicks == {2, 4}
\* the frame delta of a run at a steady frame rate
SteadyTicks == {4}
\* values of rand.gen_range(-OBSTACLE_VERTICAL_OFFSET..OBSTACLE_VERTICAL_OFFSET),
\* in halves: -18.5 and 18.5
RandDraws == {-37, 37}

\* ------------------------------------------------------------------ helpers
Abs(n) == IF n < 0 THEN -n ELSE n

\* the elements of s whose index is not in drop, in order
RECURSIVE Without(_, _, _)
Without(s, drop, i) ==
    IF i > Len(s) THEN <<>>
    ELSE (IF i \in drop THEN <<>> ELSE <<s[i]>>) \o Without(s, drop, i + 1)

\* --------------------------------------------------------------------- state
VARIABLES
    window_dimensions,  \* GameManager.window_dimensions, [x, y]
    paused,             \* Time<Virtual>::is_paused()
    delta,              \* time.delta_secs() of the running frame
    flap,               \* keys.just_pressed(FLAP_KEY) of the running frame
    birds,              \* entities with Bird: <<[x, y, velocity]>>
    obstacles,          \* entities with Obstacle, in spawn order: [x, y, pipe_direction]
    pauseTexts,         \* entities with PauseText: the Text2d as [text, number]
    score,              \* Score.value
    commands,           \* Commands queued by the frame's systems, not yet applied
    ran,                \* systems of the Update schedule that ran this frame
    pc,                 \* "idle" between frames, "update" inside the Update schedule
    dead,               \* update_bird's local `dead` when it returned
    didReset,           \* update_bird called reset_game in the running frame
    crossings,          \* upper obstacles that moved from ahead of the bird to not ahead
    scrolled            \* distance update_obstacles has moved the field since its spawn

vars == <<window_dimensions, paused, delta, flap, birds, obstacles, pauseTexts,
          score, commands, ran, pc, dead, didReset, crossings, scrolled>>

Systems == {"show_pause_screen", "update_bird", "update_obstacles"}

\* ------------------------------------------------------------ pure functions
\* mutant of get_centered_pos: half the pipe height is left out
get_centered_pos_GapOnly == OBSTACLE_GAP * PIXEL_RATIO

\* fn get_centered_pos
get_centered_pos == (OBSTACLE_HEIGHT \div 2 + OBSTACLE_GAP) * PIXEL_RATIO

\* fn generate_offset, r the value of gen_range in halves
generate_offset(r) == (r * PIXEL_RATIO) \div 2

\* OBSTACLE_SCROLL_SPEED * time.delta_secs()
ScrollStep(d) == (d * Q(OBSTACLE_SCROLL_SPEED)) \div 16

\* the Bird and Transform that spawn_bird queues: Transform::IDENTITY, velocity 0
NewBird == [x |-> 0, y |-> 0, velocity |-> 0]

\* a queued command: spawn carries the entity's components, despawn the entity
SpawnCmd(kind, ent) == [op |-> "spawn", kind |-> kind, idx |-> 0, ent |-> ent]
DespawnCmd(kind, idx) == [op |-> "despawn", kind |-> kind, idx |-> idx, ent |-> <<>>]

\* fn spawn_bird
spawn_bird == <<SpawnCmd("bird", NewBird)>>

\* fn obstacle: one pipe at (x, y) with its direction
obstacle(x, y, pipe_direction) ==
    SpawnCmd("obstacle", [x |-> x, y |-> y, pipe_direction |-> pipe_direction])

\* mutant of spawn_obstacles: the lower pipe of a pair is shifted against the
\* offset of the upper one
spawn_obstacles_SplitOffsets(draws, window_width) ==
    [j \in 1..(2 * OBSTACLE_AMOUNT) |->
        LET i == (j - 1) \div 2
            y_offset == generate_offset(draws[i + 1])
            x_pos == window_width \div 2 + OBSTACLE_SPACING * PIXEL_RATIO * i
        IN  IF j % 2 = 1
            THEN obstacle(x_pos, get_centered_pos + y_offset, 1)
            ELSE obstacle(x_pos, -get_centered_pos - y_offset, -1)]

\* fn spawn_obstacles: draws[i + 1] is the gen_range value of iteration i
spawn_obstacles(draws, window_width) ==
    [j \in 1..(2 * OBSTACLE_AMOUNT) |->
        LET i == (j - 1) \div 2
            y_offset == generate_offset(draws[i + 1])
            x_pos == window_width \div 2 + OBSTACLE_SPACING * PIXEL_RATIO * i
        IN  IF j % 2 = 1
            THEN obstacle(x_pos, get_centered_pos + y_offset, 1)
            ELSE obstacle(x_pos, -get_centered_pos + y_offset, -1)]

\* the draws of one spawn_obstacles call: the first VariedPairs pairs draw
\* freely from RandDraws, the later pairs repeat those draws in turn
SpawnDraws ==
    { [i \in 1..OBSTACLE_AMOUNT |-> d[((i - 1) % VariedPairs) + 1]] :
        d \in [1..VariedPairs -> RandDraws] }

\* mutant of MoveObstacle: the scroll follows the real clock, which keeps
\* ticking (here at 0.25 s a frame) while virtual time is paused
MoveObstacle_RealTime(o, d, y_offset, window_width) ==
    LET x1 == o.x - ScrollStep(IF d = 0 THEN 4 ELSE d)
    IN  IF x1 + (OBSTACLE_WIDTH * PIXEL_RATIO) \div 2 < -(window_width \div 2)
        THEN [o EXCEPT !.x = x1 + OBSTACLE_AMOUNT * OBSTACLE_SPACING * PIXEL_RATIO,
                       !.y = get_centered_pos * o.pipe_direction + y_offset]
        ELSE [o EXCEPT !.x = x1]

\* mutant of MoveObstacle: a recycled obstacle jumps forward by one pair
\* less than the lattice period
MoveObstacle_ShortJump(o, d, y_offset, window_width) ==
    LET x1 == o.x - ScrollStep(d)
    IN  IF x1 + (OBSTACLE_WIDTH * PIXEL_RATIO) \div 2 < -(window_width \div 2)
        THEN [o EXCEPT !.x = x1 + (OBSTACLE_AMOUNT - 1) * OBSTACLE_SPACING * PIXEL_RATIO,
                       !.y = get_centered_pos * o.pipe_direction + y_offset]
        ELSE [o EXCEPT !.x = x1]

\* mutant of MoveObstacle: the direction multiplies the offset too
MoveObstacle_FlippedOffset(o, d, y_offset, window_width) ==
    LET x1 == o.x - ScrollStep(d)
    IN  IF x1 + (OBSTACLE_WIDTH * PIXEL_RATIO) \div 2 < -(window_width \div 2)
        THEN [o EXCEPT !.x = x1 + OBSTACLE_AMOUNT * OBSTACLE_SPACING * PIXEL_RATIO,
                       !.y = (get_centered_pos + y_offset) * o.pipe_direction]
        ELSE [o EXCEPT !.x = x1]

\* update_obstacles, the loop body for one obstacle
MoveObstacle(o, d, y_offset, window_width) ==
    LET x1 == o.x - ScrollStep(d)
    IN  IF x1 + (OBSTACLE_WIDTH * PIXEL_RATIO) \div 2 < -(window_width \div 2)
        THEN [o EXCEPT !.x = x1 + OBSTACLE_AMOUNT * OBSTACLE_SPACING * PIXEL_RATIO,
                       !.y = get_centered_pos * o.pipe_direction + y_offset]
        ELSE [o EXCEPT !.x = x1]

\* mutant of Integrate: a flap adds FLAP_FORCE to the velocity
Integrate_Additive(b, d, f) ==
    LET v0 == IF f THEN b.velocity + FLAP_FORCE ELSE b.velocity
        v1 == v0 - (d * GRAVITY) \div 16
    IN  [b EXCEPT !.velocity = v1, !.y = b.y + Q(v1 * d) \div 16]

\* update_bird, flap and integration of one frame
Integrate(b, d, f) ==
    LET v0 == IF f THEN FLAP_FORCE ELSE b.velocity
        v1 == v0 - (d * GRAVITY) \div 16
    IN  [b EXCEPT !.velocity = v1, !.y = b.y + Q(v1 * d) \div 16]

\* update_bird, the lower death boundary
HitsFloor(b, window_height) == b.y <= -(window_height \div 2)

\* mutant of Scores: the test for the upper member is left out
Scores_AnyMember(p, b, d) ==
    /\ p.x - b.x > 0
    /\ p.x - b.x < ScrollStep(d)

\* update_bird, the scoring condition for one pipe
Scores(p, b, d) ==
    /\ p.x - b.x > 0
    /\ p.x - b.x < ScrollStep(d)
    /\ p.y > 0

\* mutant of Collides: the vertical comparison is not strict
Collides_Inclusive(p, b) ==
    /\ Abs(p.y - b.y) <= ((OBSTACLE_HEIGHT - MERCY_ZONE) * PIXEL_RATIO) \div 2
    /\ Abs(p.x - b.x) < ((OBSTACLE_WIDTH - MERCY_ZONE) * PIXEL_RATIO) \div 2

\* update_bird, the collision check for one pipe
Collides(p, b) ==
    /\ Abs(p.y - b.y) < ((OBSTACLE_HEIGHT - MERCY_ZONE) * PIXEL_RATIO) \div 2
    /\ Abs(p.x - b.x) < ((OBSTACLE_WIDTH - MERCY_ZONE) * PIXEL_RATIO) \div 2

\* update_bird, the loop over obstacle_query from pipe i on, with its break
RECURSIVE ScanObstacles(_, _, _, _, _)
ScanObstacles(obs, b, d, i, sc) ==
    IF i > Len(obs) THEN [score |-> sc, dead |-> FALSE]
    ELSE LET sc1 == IF Scores(obs[i], b, d) THEN sc + 1 ELSE sc
         IN  IF Collides(obs[i], b)
             THEN [score |-> sc1, dead |-> TRUE]
             ELSE ScanObstacles(obs, b, d, i + 1, sc1)

\* mutant of PlayBird: reaching the lower death boundary does not set `dead`
PlayBird_FloorIgnored(b, obs, d, f, sc, window_height) ==
    LET b1 == Integrate(b, d, f)
        r == ScanObstacles(obs, b1, d, 1, sc)
    IN  IF HitsFloor(b1, window_height)
        THEN [bird |-> b1, score |-> sc, dead |-> FALSE]
        ELSE [bird |-> b1, score |-> r.score, dead |-> r.dead]

\* mutant of PlayBird: a death clears the score
PlayBird_DeathClearsScore(b, obs, d, f, sc, window_height) ==
    LET b1 == Integrate(b, d, f)
        r == ScanObstacles(obs, b1, d, 1, sc)
    IN  IF HitsFloor(b1, window_height)
        THEN [bird |-> b1, score |-> 0, dead |-> TRUE]
        ELSE [bird |-> b1, score |-> (IF r.dead THEN 0 ELSE r.score), dead |-> r.dead]

\* update_bird, the branch taken with time running: [bird, score, dead]
PlayBird(b, obs, d, f, sc, window_height) ==
    LET b1 == Integrate(b, d, f)
    IN  IF HitsFloor(b1, window_height)
        THEN [bird |-> b1, score |-> sc, dead |-> TRUE]
        ELSE LET r == ScanObstacles(obs, b1, d, 1, sc)
             IN  [bird |-> b1, score |-> r.score, dead |-> r.dead]

\* mutant of reset_game: the old obstacles are not despawned
reset_game_KeepsOld(obs, draws, window_width) ==
    spawn_obstacles(draws, window_width)

\* reset_game, the commands it queues
reset_game(obs, draws, window_width) ==
    [i \in 1..Len(obs) |-> DespawnCmd("obstacle", i)]
        \o spawn_obstacles(draws, window_width)

\* show_pause_screen, the three texts of spawn_batch
PauseBatch(sc) ==
    << SpawnCmd("text", [text |-> "Flap Flap Away~", number |-> <<>>]),
       SpawnCmd("text", [text |-> "press [space] to start.", number |-> <<>>]),
       SpawnCmd("text", [text |-> "Score: ", number |-> <<sc>>]) >>

\* show_pause_screen, the commands it queues
PauseCommands(isPaused, bs, texts, sc) ==
    IF isPaused
    THEN (IF Len(bs) = 1 THEN <<DespawnCmd("bird", 1)>> ELSE <<>>) \o PauseBatch(sc)
    ELSE [i \in 1..Len(texts) |-> DespawnCmd("text", i)]

\* what the queued commands make of the entities of one kind
IsSpawn(c, kind) == c.op = "spawn" /\ c.kind = kind
Apply(ents, cmds, kind) ==
    LET gone == {cmds[i].idx : i \in {j \in DOMAIN cmds :
                    cmds[j].op = "despawn" /\ cmds[j].kind = kind}}
        born == SelectSeq(cmds, LAMBDA c : IsSpawn(c, kind))
    IN  Without(ents, gone, 1) \o [i \in 1..Len(born) |-> born[i].ent]

\* upper pipes that this frame's scroll carries from ahead of x to not ahead
Crossed(obs, d, x) ==
    Cardinality({i \in DOMAIN obs :
        obs[i].pipe_direction = 1 /\ obs[i].x > x /\ obs[i].x - ScrollStep(d) <= x})

\* ---------------------------------------------------------------------- Init
\* the world after Startup: setup_level's commands applied
Init ==
    /\ window_dimensions = [x |-> Q(WIN_X), y |-> Q(WIN_Y)]
    /\ paused = FALSE
    /\ delta = 0
    /\ flap = FALSE
    /\ birds = Apply(<<>>, spawn_bird, "bird")
    /\ \E draws \in SpawnDraws :
          obstacles = Apply(<<>>, spawn_obstacles(draws, window_dimensions.x), "obstacle")
    /\ pauseTexts = <<>>
    /\ score = 0
    /\ commands = <<>>
    /\ ran = {}
    /\ pc = "idle"
    /\ dead = FALSE
    /\ didReset = FALSE
    /\ crossings = 0
    /\ scrolled = 0

\* ------------------------------------------------------------------- actions
\* the frame clock and the input of one frame: Time<Virtual> advances by 0
\* while paused and by the frame's delta otherwise; keys.just_pressed is the
\* flap edge.  The frame is not begun beyond the bounds of the exploration.
StartFrame(deltas, maxScroll) ==
    /\ pc = "idle"
    /\ scrolled < Q(maxScroll)
    /\ Len(pauseTexts) <= MaxPauseTexts
    /\ \A i \in DOMAIN birds : birds[i].y <= Q(MaxBirdY)
    /\ pc' = "update"
    /\ ran' = {}
    /\ delta' \in (IF paused THEN {0} ELSE deltas)
    /\ flap' \in BOOLEAN
    /\ dead' = FALSE
    /\ didReset' = FALSE
    /\ UNCHANGED <<window_dimensions, paused, birds, obstacles, pauseTexts, score,
                   commands, crossings, scrolled>>

\* a frame of a run whose frame rate varies
BeginFrame == StartFrame(DeltaTicks, MaxScroll)

\* a frame of a run at a steady 4 frames per second
BeginSteadyFrame == StartFrame(SteadyTicks, MaxSteadyScroll)

\* fn show_pause_screen
ShowPauseScreen ==
    /\ pc = "update"
    /\ "show_pause_screen" \notin ran
    /\ ran' = ran \cup {"show_pause_screen"}
    /\ commands' = commands \o PauseCommands(paused, birds, pauseTexts, score)
    /\ UNCHANGED <<window_dimensions, paused, delta, flap, birds, obstacles,
                   pauseTexts, score, pc, dead, didReset, crossings, scrolled>>

\* fn update_obstacles
UpdateObstacles ==
    /\ pc = "update"
    /\ "update_obstacles" \notin ran
    /\ ran' = ran \cup {"update_obstacles"}
    /\ \E r \in RandDraws :
          obstacles' = [i \in DOMAIN obstacles |->
              MoveObstacle(obstacles[i], delta, generate_offset(r), window_dimensions.x)]
    /\ crossings' = crossings + Crossed(obstacles, delta, NewBird.x)
    /\ scrolled' = scrolled + ScrollStep(delta)
    /\ UNCHANGED <<window_dimensions, paused, delta, flap, birds, pauseTexts, score,
                   commands, pc, dead, didReset>>

\* mutant of UpdateBird: without the branch that respawns a missing bird
UpdateBird_NoHeal ==
    /\ pc = "update"
    /\ "update_bird" \notin ran
    /\ ran' = ran \cup {"update_bird"}
    /\ IF Len(birds) = 1
       THEN IF ~paused
            THEN LET r == PlayBird(birds[1], obstacles, delta, flap, score,
                                   window_dimensions.y)
                 IN  /\ birds' = <<r.bird>>
                     /\ score' = r.score
                     /\ dead' = r.dead
                     /\ paused' = r.dead
                     /\ UNCHANGED <<commands, didReset, crossings, scrolled>>
            ELSE IF flap
                 THEN /\ birds' = <<[birds[1] EXCEPT !.x = 0, !.y = 0, !.velocity = 0]>>
                      /\ score' = 0
                      /\ \E draws \in SpawnDraws :
                            commands' = commands \o
                                reset_game(obstacles, draws, window_dimensions.x)
                      /\ paused' = FALSE
                      /\ dead' = FALSE
                      /\ didReset' = TRUE
                      /\ crossings' = 0
                      /\ scrolled' = 0
                 ELSE UNCHANGED <<birds, score, commands, paused, dead, didReset,
                                  crossings, scrolled>>
       ELSE UNCHANGED <<birds, score, commands, paused, dead, didReset, crossings,
                        scrolled>>
    /\ UNCHANGED <<window_dimensions, delta, flap, obstacles, pauseTexts, pc>>

\* mutant of UpdateBird: the Reset queues spawn_bird too, as setup_level does
UpdateBird_ResetSpawns ==
    /\ pc = "update"
    /\ "update_bird" \notin ran
    /\ ran' = ran \cup {"update_bird"}
    /\ IF Len(birds) = 1
       THEN IF ~paused
            THEN LET r == PlayBird(birds[1], obstacles, delta, flap, score,
                                   window_dimensions.y)
                 IN  /\ birds' = <<r.bird>>
                     /\ score' = r.score
                     /\ dead' = r.dead
                     /\ paused' = r.dead
                     /\ UNCHANGED <<commands, didReset, crossings, scrolled>>
            ELSE IF flap
                 THEN /\ birds' = <<[birds[1] EXCEPT !.x = 0, !.y = 0, !.velocity = 0]>>
                      /\ score' = 0
                      /\ \E draws \in SpawnDraws :
                            commands' = commands \o
                                reset_game(obstacles, draws, window_dimensions.x)
                                \o spawn_bird
                      /\ paused' = FALSE
                      /\ dead' = FALSE
                      /\ didReset' = TRUE
                      /\ crossings' = 0
                      /\ scrolled' = 0
                 ELSE UNCHANGED <<birds, score, commands, paused, dead, didReset,
                                  crossings, scrolled>>
       ELSE /\ commands' = commands \o spawn_bird
            /\ UNCHANGED <<birds, score, paused, dead, didReset, crossings, scrolled>>
    /\ UNCHANGED <<window_dimensions, delta, flap, obstacles, pauseTexts, pc>>

\* fn update_bird
UpdateBird ==
    /\ pc = "update"
    /\ "update_bird" \notin ran
    /\ ran' = ran \cup {"update_bird"}
    /\ IF Len(birds) = 1
       THEN IF ~paused
            THEN LET r == PlayBird(birds[1], obstacles, delta, flap, score,
                                   window_dimensions.y)
                 IN  /\ birds' = <<r.bird>>
                     /\ score' = r.score
                     /\ dead' = r.dead
                     /\ paused' = r.dead
                     /\ UNCHANGED <<commands, didReset, crossings, scrolled>>
            ELSE IF flap
                 THEN /\ birds' = <<[birds[1] EXCEPT !.x = 0, !.y = 0, !.velocity = 0]>>
                      /\ score' = 0
                      /\ \E draws \in SpawnDraws :
                            commands' = commands \o
                                reset_game(obstacles, draws, window_dimensions.x)
                      /\ paused' = FALSE
                      /\ dead' = FALSE
                      /\ didReset' = TRUE
                      /\ crossings' = 0
                      /\ scrolled' = 0
                 ELSE UNCHANGED <<birds, score, commands, paused, dead, didReset,
                                  crossings, scrolled>>
       ELSE /\ commands' = commands \o spawn_bird
            /\ UNCHANGED <<birds, score, paused, dead, didReset, crossings, scrolled>>
    /\ UNCHANGED <<window_dimensions, delta, flap, obstacles, pauseTexts, pc>>

\* the end of the Update schedule: the queued commands are applied
ApplyDeferred ==
    /\ pc = "update"
    /\ ran = Systems
    /\ birds' = Apply(birds, commands, "bird")
    /\ obstacles' = Apply(obstacles, commands, "obstacle")
    /\ pauseTexts' = Apply(pauseTexts, commands, "text")
    /\ commands' = <<>>
    /\ pc' = "idle"
    /\ UNCHANGED <<window_dimensions, paused, delta, flap, score, ran, dead,
                   didReset, crossings, scrolled>>

Next ==
    \/ BeginFrame
    \/ ShowPauseScreen
    \/ UpdateObstacles
    \/ UpdateBird
    \/ ApplyDeferred

Spec == Init /\ [][Next]_vars

\* the runs at a steady frame rate, explored far enough for obstacles to recycle
NextSteady ==
    \/ BeginSteadyFrame
    \/ ShowPauseScreen
    \/ UpdateObstacles
    \/ UpdateBird
    \/ ApplyDeferred

SpecSteady == Init /\ [][NextSteady]_vars

\* the runs in which every frame's systems run in the order of the design's
\* control flow: the pause screen, then the obstacle field, then the bird, which
\* so reads the obstacles where this frame's scroll has put them
PostMoveShowPauseScreen == ran = {} /\ ShowPauseScreen
PostMoveUpdateObstacles == ran = {"show_pause_screen"} /\ UpdateObstacles
PostMoveUpdateBird == ran = {"show_pause_screen", "update_obstacles"} /\ UpdateBird

NextPostMove ==
    \/ BeginFrame
    \/ PostMoveShowPauseScreen
    \/ PostMoveUpdateObstacles
    \/ PostMoveUpdateBird
    \/ ApplyDeferred

SpecPostMove == Init /\ [][NextPostMove]_vars

\* ------------------------------------------------------------------- claims
\* the lower death boundary, -window_dimensions.y / 2
FloorY == -(window_dimensions.y \div 2)

\* a step in which update_bird runs its time-running branch on the single bird
UpdateBirdPlays ==
    /\ pc = "update"
    /\ "update_bird" \notin ran
    /\ "update_bird" \in ran'
    /\ Len(birds) = 1
    /\ ~paused

\* upper members (by direction flag) of obs that satisfy the scoring condition
\* for a bird at b in a frame of delta d
Qualifying(obs, b, d) ==
    Cardinality({i \in DOMAIN obs :
        /\ obs[i].pipe_direction = 1
        /\ obs[i].x - b.x > 0
        /\ 16 * (obs[i].x - b.x) < 4 * OBSTACLE_SCROLL_SPEED * d})

\* some pipe of obs is within the mercy-reduced hitbox of a bird at b
InHitbox(obs, b) ==
    \E i \in DOMAIN obs :
        /\ 2 * Abs(obs[i].y - b.y) < (OBSTACLE_HEIGHT - MERCY_ZONE) * PIXEL_RATIO
        /\ 2 * Abs(obs[i].x - b.x) < (OBSTACLE_WIDTH - MERCY_ZONE) * PIXEL_RATIO

\* C1 (as stated): at the end of every frame there is exactly one Bird while
\* time runs and none while time is paused.
C1_OneActorWhilePlaying ==
    pc = "idle" => Len(birds) = (IF paused THEN 0 ELSE 1)

\* C2 (as stated): a flap edge in a frame that began paused (delta = 0) makes
\* reset_game run in that frame and leaves time running at its end.
C2_FlapWhilePausedResets ==
    (pc = "idle" /\ delta = 0 /\ flap) => (didReset /\ ~paused)

\* C3 (as stated): at the end of a frame in which reset_game ran the score is
\* 0, time runs, there is exactly one Bird, at y = 0 with velocity 0, and the
\* field is the OBSTACLE_AMOUNT freshly spawned pairs.
C3_ResetState ==
    (pc = "idle" /\ didReset) =>
        /\ score = 0
        /\ ~paused
        /\ birds = <<NewBird>>
        /\ \E draws \in SpawnDraws :
              obstacles = Apply(<<>>, spawn_obstacles(draws, window_dimensions.x),
                                "obstacle")

\* C4 (as stated): in every frame in which update_bird moves the bird, the
\* score grows by the number of upper obstacles that satisfy the scoring
\* condition, also when the bird dies in that frame.
C4_ScoreCountsQualifying ==
    [][UpdateBirdPlays => score' - score = Qualifying(obstacles, birds'[1], delta)]_vars

\* C4 (amended): the same in every frame in which the bird does not reach the
\* lower death boundary (a death by collision included); in a frame in which it
\* reaches the boundary the score does not change.
C4_ScoreCountsUnlessFloor ==
    [][UpdateBirdPlays =>
        score' - score = (IF birds'[1].y <= FloorY THEN 0
                          ELSE Qualifying(obstacles, birds'[1], delta))]_vars

\* C4 witness: update_bird has just scored an upper obstacle that satisfies the
\* scoring condition (the field is as update_bird read it).
C4_Witness ==
    /\ pc = "update"
    /\ "update_bird" \in ran
    /\ "update_obstacles" \notin ran
    /\ delta > 0
    /\ Len(birds) = 1
    /\ birds[1].y > FloorY
    /\ Qualifying(obstacles, birds[1], delta) = 1
    /\ score = 1

\* C5 (as stated): while time runs, every upper obstacle that went from ahead
\* of the bird to not ahead has raised the score by exactly 1; the score runs
\* ahead of the passes by at most the one pair that is being passed.
C5_OnePointPerPass ==
    (pc = "idle" /\ ~paused) => (crossings <= score /\ score <= crossings + 1)

\* C6: when update_bird moves the bird and the bird stays above the lower death
\* boundary, `dead` is set iff some obstacle is strictly within both
\* mercy-reduced half-extents of the bird.
C6_CollisionEnvelope ==
    [][(UpdateBirdPlays /\ birds'[1].y > FloorY) =>
        (dead' <=> InHitbox(obstacles, birds'[1]))]_vars

\* C6 witness: the bird died by collision, above the lower death boundary.
C6_Witness ==
    /\ dead
    /\ Len(birds) = 1
    /\ birds[1].y > FloorY
    /\ InHitbox(obstacles, birds[1])
    /\ "update_obstacles" \notin ran

\* C7: a death found by update_bird pauses virtual time within the same
\* update, a bird at or below the lower death boundary never coexists with
\* running time, and the frame after a death runs with delta 0.
C7_DeathPauses ==
    /\ dead => paused
    /\ \A i \in DOMAIN birds : birds[i].y <= FloorY => paused
    /\ (pc = "update" /\ delta > 0 /\ paused) => dead

\* C7 witness: the frame ended with the bird on the lower death boundary.
C7_Witness ==
    /\ pc = "idle"
    /\ dead
    /\ paused
    /\ Len(birds) = 1
    /\ birds[1].y <= FloorY

\* C8: there are always 2 * OBSTACLE_AMOUNT obstacles: scrolling and recycling
\* keep the count, and a Reset replaces all of them at the end of its frame.
C8_ObstacleCount == Len(obstacles) = 2 * OBSTACLE_AMOUNT

\* C8 witness: a frame ended after an obstacle was recycled: it is ahead of
\* where the scroll has carried the last pair of the spawn.
C8_Witness ==
    /\ pc = "idle"
    /\ \E i \in DOMAIN obstacles :
          obstacles[i].x > window_dimensions.x \div 2
                              + OBSTACLE_SPACING * PIXEL_RATIO * (OBSTACLE_AMOUNT - 1)
                              - scrolled

\* C9: the score never goes down except in the step that runs reset_game, and
\* that step sets it to 0: a death, a paused frame or the applying of commands
\* leaves it alone.
C9_ScoreMonotone ==
    [][/\ score' < score => (didReset' /\ ~didReset)
       /\ (didReset' /\ ~didReset) => score' = 0]_vars

\* C9 witness: reset_game has zeroed a score that the pause overlay still
\* shows as positive.
C9_Witness ==
    /\ didReset
    /\ score = 0
    /\ \E i \in DOMAIN pauseTexts :
          /\ pauseTexts[i].number # <<>>
          /\ pauseTexts[i].number[1] > 0

\* C10: in a frame that began paused (delta = 0), up to a Reset, no step moves
\* an obstacle or changes the score, and every Bird after the step is one that
\* was there before, unchanged, or a freshly spawned one.
C10_PausedFrozen ==
    [][(pc = "update" /\ delta = 0 /\ ~didReset') =>
        /\ obstacles' = obstacles
        /\ score' = score
        /\ \A i \in DOMAIN birds' :
              \/ birds'[i] = NewBird
              \/ \E j \in DOMAIN birds : birds'[i] = birds[j]]_vars

\* C10 witness: a frame that began paused has run all its systems without a
\* Reset while the dead bird, away from its spawn position, is still there.
C10_Witness ==
    /\ pc = "update"
    /\ delta = 0
    /\ ran = Systems
    /\ ~didReset
    /\ Len(birds) = 1
    /\ birds[1] # NewBird

\* C11 (as stated): in a frame that began with time running, whenever
\* update_bird has run on the bird, update_obstacles has already run, so that
\* the scoring and collision checks read the post-scroll positions, whatever
\* order the scheduler takes.
C11_BirdReadsPostMove ==
    ("update_bird" \in ran /\ delta > 0 /\ Len(birds) = 1)
        => "update_obstacles" \in ran

\* the vertical distance of a pipe's centre from the centre of its pair's gap,
\* (OBSTACLE_HEIGHT / 2 + OBSTACLE_GAP) * PIXEL_RATIO
CenterGap == ((OBSTACLE_HEIGHT + 2 * OBSTACLE_GAP) * PIXEL_RATIO) \div 2

\* the lattice period, OBSTACLE_AMOUNT * OBSTACLE_SPACING * PIXEL_RATIO
LatticePeriod == OBSTACLE_AMOUNT * OBSTACLE_SPACING * PIXEL_RATIO

\* the scroll of a frame of delta d puts the right edge of a pipe that was at x
\* strictly left of the left world boundary
LeavesWorld(x, d) ==
    16 * (2 * x + OBSTACLE_WIDTH * PIXEL_RATIO) - 2 * 4 * OBSTACLE_SCROLL_SPEED * d
        < -16 * window_dimensions.x

\* C12: in a step of update_obstacles every obstacle scrolls left by
\* OBSTACLE_SCROLL_SPEED * delta; it is recycled exactly when its right edge
\* is then strictly left of the left world boundary; a recycled obstacle is
\* one lattice period further right, keeps its direction and has
\* y = direction * centerGap + the one offset drawn in that frame; an obstacle
\* that is not recycled keeps its y and its direction.
C12_RecycleStep ==
    [][("update_obstacles" \notin ran /\ "update_obstacles" \in ran') =>
        /\ DOMAIN obstacles' = DOMAIN obstacles
        /\ \E r \in RandDraws :
              \A i \in DOMAIN obstacles :
                  LET o == obstacles[i]
                      n == obstacles'[i]
                  IN  /\ n.pipe_direction = o.pipe_direction
                      /\ IF LeavesWorld(o.x, delta)
                         THEN /\ 16 * (n.x - o.x) =
                                    16 * LatticePeriod - 4 * OBSTACLE_SCROLL_SPEED * delta
                              /\ 2 * n.y = 2 * o.pipe_direction * CenterGap + r * PIXEL_RATIO
                         ELSE /\ 16 * (o.x - n.x) = 4 * OBSTACLE_SCROLL_SPEED * delta
                              /\ n.y = o.y]_vars

\* C12 witness: update_obstacles has recycled the first pair in this frame (one
\* scroll step earlier its right edge was not yet left of the boundary): it is
\* now behind the last pair, one lattice period less one spacing ahead of the
\* second pair.
C12_Witness ==
    /\ pc = "update"
    /\ "update_obstacles" \in ran
    /\ delta > 0
    /\ Len(obstacles) = 2 * OBSTACLE_AMOUNT
    /\ obstacles[1].x > obstacles[3].x
    /\ obstacles[1].x = obstacles[3].x + LatticePeriod - OBSTACLE_SPACING * PIXEL_RATIO
    /\ 2 * obstacles[1].x + OBSTACLE_WIDTH * PIXEL_RATIO + 2 * ScrollStep(delta)
          >= 2 * LatticePeriod - window_dimensions.x

\* C13: when update_bird moves the bird, the velocity after the step is
\* FLAP_FORCE - GRAVITY * delta if the frame has a flap edge, whatever the
\* velocity was, and the old velocity - GRAVITY * delta if not; the bird moves
\* up by the new velocity * delta and does not move sideways.
C13_FlapOverrides ==
    [][UpdateBirdPlays =>
        /\ 16 * birds'[1].velocity =
              16 * (IF flap THEN FLAP_FORCE ELSE birds[1].velocity) - GRAVITY * delta
        /\ 16 * (birds'[1].y - birds[1].y) = 4 * birds'[1].velocity * delta
        /\ birds'[1].x = birds[1].x]_vars

\* C13 witness: update_bird has applied a flap to a bird that was below its
\* spawn height, so had been falling: its velocity is FLAP_FORCE less the
\* frame's gravity and it is still below the spawn height.
C13_Witness ==
    /\ pc = "update"
    /\ "update_bird" \in ran
    /\ flap
    /\ delta > 0
    /\ ~paused
    /\ Len(birds) = 1
    /\ 16 * birds[1].velocity = 16 * FLAP_FORCE - GRAVITY * delta
    /\ birds[1].y < 0

\* C14: in a frame that began with time running and no Bird, no step changes
\* the score, pauses time or runs reset_game, the obstacles stay the same 2 *
\* OBSTACLE_AMOUNT entities, and the frame ends with exactly one Bird, at the
\* origin with velocity 0.
C14_SelfHeal ==
    [][(pc = "update" /\ delta > 0 /\ birds = <<>>) =>
        /\ score' = score
        /\ ~paused'
        /\ ~didReset'
        /\ Len(obstacles') = Len(obstacles)
        /\ pc' = "idle" =>
              /\ birds' = <<[x |-> 0, y |-> 0, velocity |-> 0]>>
              /\ obstacles' = obstacles]_vars

\* C14 witness: a frame that began with time running and no Bird has run all
\* its systems, and update_bird has queued the spawn of a Bird.
C14_Witness ==
    /\ pc = "update"
    /\ delta > 0
    /\ ~paused
    /\ birds = <<>>
    /\ ran = Systems
    /\ \E i \in DOMAIN commands : IsSpawn(commands[i], "bird")

\* C15 (as stated): at the end of every frame the pause overlay is exactly the
\* three PauseText entities while time is paused, however many frames the
\* pause has lasted, and no PauseText is left while time runs.
C15_OverlayIsThreeTexts ==
    pc = "idle" => Len(pauseTexts) = (IF paused THEN 3 ELSE 0)

\* C16: at startup and at the end of every frame in which reset_game ran, for
\* each i in 0..OBSTACLE_AMOUNT-1 the pipes 2i+1 and 2i+2 are pair i: both at
\* x = window width / 2 + i * OBSTACLE_SPACING * PIXEL_RATIO, the first with
\* direction 1 at y = centerGap + offset, the second with direction -1 at
\* y = -centerGap + offset, with the one offset of the pair in
\* [-OBSTACLE_VERTICAL_OFFSET, OBSTACLE_VERTICAL_OFFSET) * PIXEL_RATIO.
C16_SpawnLayout ==
    (pc = "idle" /\ (ran = {} \/ didReset)) =>
        /\ Len(obstacles) = 2 * OBSTACLE_AMOUNT
        /\ \A i \in 0..(OBSTACLE_AMOUNT - 1) :
              LET upper == obstacles[2 * i + 1]
                  lower == obstacles[2 * i + 2]
                  offset == upper.y - CenterGap
              IN  /\ upper.pipe_direction = 1
                  /\ lower.pipe_direction = -1
                  /\ 2 * upper.x = window_dimensions.x + 2 * i * OBSTACLE_SPACING * PIXEL_RATIO
                  /\ lower.x = upper.x
                  /\ lower.y = -CenterGap + offset
                  /\ -OBSTACLE_VERTICAL_OFFSET * PIXEL_RATIO <= offset
                  /\ offset < OBSTACLE_VERTICAL_OFFSET * PIXEL_RATIO

\* C16 witness: a frame in which reset_game ran has ended and the field of the
\* reset is in place, its first pair shifted by a non-zero offset.
C16_Witness ==
    /\ pc = "idle"
    /\ didReset
    /\ scrolled = 0
    /\ Len(obstacles) = 2 * OBSTACLE_AMOUNT
    /\ obstacles[1].y # CenterGap
    /\ obstacles[1].y + obstacles[2].y = 2 * (obstacles[1].y - CenterGap)
    /\ 2 * obstacles[2 * OBSTACLE_AMOUNT].x =
          window_dimensions.x + 2 * (OBSTACLE_AMOUNT - 1) * OBSTACLE_SPACING * PIXEL_RATIO

\* C17: at the end of every frame the obstacles are OBSTACLE_AMOUNT pairs (the
\* pipes 2i+1 and 2i+2, an upper and a lower one) whose members have the same x
\* and are 2 * centerGap apart in y, after any scrolling and recycling.
C17_PairCoherence ==
    pc = "idle" =>
        /\ Len(obstacles) = 2 * OBSTACLE_AMOUNT
        /\ \A i \in 0..(OBSTACLE_AMOUNT - 1) :
              /\ obstacles[2 * i + 1].pipe_direction = 1
              /\ obstacles[2 * i + 2].pipe_direction = -1
              /\ obstacles[2 * i + 1].x = obstacles[2 * i + 2].x
              /\ obstacles[2 * i + 1].y - obstacles[2 * i + 2].y = 2 * CenterGap

\* C17 witness: a frame has ended with the first pair recycled, both members
\* behind the last pair, with an offset other than the one the second pair has
\* kept from the spawn.
C17_Witness ==
    /\ pc = "idle"
    /\ Len(obstacles) = 2 * OBSTACLE_AMOUNT
    /\ obstacles[1].x > obstacles[2 * OBSTACLE_AMOUNT - 1].x
    /\ obstacles[2].x > obstacles[2 * OBSTACLE_AMOUNT].x
    /\ obstacles[1].y # obstacles[3].y
    /\ obstacles[2].y # obstacles[4].y

\* C18: in every state, for every obstacle, y > 0 iff its direction is 1: the
\* test `y > 0` of the scoring condition picks exactly the upper pipes.
C18_UpperIffPositiveY ==
    \A i \in DOMAIN obstacles :
        obstacles[i].y > 0 <=> obstacles[i].pipe_direction = 1

\* C18 witness: update_bird has scored the upper pipe of the first pair, whose
\* offset is negative, so its y is below centerGap, and still positive.
C18_Witness ==
    /\ pc = "update"
    /\ "update_bird" \in ran
    /\ score = 1
    /\ Len(obstacles) = 2 * OBSTACLE_AMOUNT
    /\ obstacles[1].pipe_direction = 1
    /\ obstacles[1].y < CenterGap
    /\ obstacles[1].y > 0
    /\ obstacles[2].y < -CenterGap

\* C19: there is never more than one Bird, in any state and for every order
\* of show_pause_screen's despawn, update_bird's respawn and reset_game.
C19_AtMostOneBird == Len(birds) <= 1

\* C19 witness: a frame has ended with time paused, the pause overlay up and a
\* Bird at the origin: the dead bird was despawned and update_bird has
\* respawned one during the pause.
C19_Witness ==
    /\ pc = "idle"
    /\ paused
    /\ ~dead
    /\ Len(pauseTexts) >= 3
    /\ birds = <<NewBird>>

====
